---- MODULE Spec2Model ----
(***************************************************************************)
(* Player component of the animated-videos repository (Player.tsx, kept    *)
(* in src/unnamed/part_002): the playback sequencer driven by React state, *)
(* setTimeout callbacks, the hidden <audio> element and the MediaRecorder. *)
(*                                                                         *)
(* One step of the model is one browser task: a click handler, a timer     *)
(* callback, an audio or recorder event.  React batches the state updates  *)
(* of a task, renders once and then runs the effects whose dependencies    *)
(* changed, so every action ends with Commit, which applies the render     *)
(* effect of lines 35-113 and the sequencing effect of lines 174-180 to    *)
(* the new state.                                                          *)
(*                                                                         *)
(* Spec is the sequencer and the recorder of a mounted Player; DwellSpec   *)
(* runs it on lines of several text lengths; PlayerSpec adds the frames of *)
(* the drawing loop and the unmounting of the component by App.            *)
(* WrapSpec applies wrapText of the subtitle compositor to bounded texts;  *)
(* AssetSpec is the storyboard of App (part_001, part_002 lines 347-469):  *)
(* image, audio and avatar generations that settle in any order.           *)
(***************************************************************************)
EXTENDS Integers, Sequences, FiniteSets, Bags, TLC

\* ---- bounds of the model ------------------------------------------------
MaxScenes == 2
MaxDlg == 2
MaxPending == 2
TickMs == 1000
MaxTextFactor == 6
MaxTextChars == 5
MaxLineWidth == 4
MaxGenerations == 3

\* ---- constants of the program -------------------------------------------
InterScenePauseMs == 1000
MinDwellMs == 2000
MsPerChar == 50
LineHeight == 30

\* length of the text of a line: the 10 characters of the spec's scenario
TextLen == 10

VARIABLES
  scenes,                 \* prop: Scene[] (order, dialogues)
  currentSceneIndex,      \* useState(0)
  currentDialogueIndex,   \* useState(0)
  isPlaying,              \* useState(false)
  isRecording,            \* useState(false)
  timers,                 \* bag of pending setTimeout callbacks and queued promise rejections
  audio,                  \* the hidden <audio> element
  mediaRecorder,          \* mediaRecorderRef.current: "none" (null), "recording", "inactive"
  onstopPending,          \* a stop event of the recorder is queued
  artifacts,              \* downloads produced by the recorder created last
  lastCtl,                \* history: the last control that took effect
  visited,                \* history: lines entered since that control
  pausedAt,               \* history: cursor at the last pause, until another control
  ignored,                \* history: the last step was a click on a disabled button
  rejected,               \* history: the last step was a play() rejected by the audio engine
  elapsed,                \* history: ms of playback since play() at (0,0), all-silent projects
  mounted,                \* the Player component is mounted (App renders it in view 'preview')
  rafPending,             \* number of requestAnimationFrame requests not yet run or cancelled
  rafRefLive,             \* animationFrameRef.current is the handle of a pending request
  startTimeRef,           \* startTimeRef.current: "unset" (0), or set during "thisScene" / an "earlierScene"
  audioContext,           \* audioContextRef.current: "none" (null), "running", "closed"
  streamTracks,           \* tracks of the captured streams: "none", "live", "stopped"
  audioGraph,             \* how many contexts, destinations and element sources were created
  wrap,                   \* a call of wrapText: its arguments, its loop variables, its output
  assets                  \* App: the asset fields of analysis and the generations in flight

vars == <<scenes, currentSceneIndex, currentDialogueIndex, isPlaying, isRecording,
          timers, audio, mediaRecorder, onstopPending, artifacts,
          lastCtl, visited, pausedAt, ignored, rejected, elapsed,
          mounted, rafPending, rafRefLive, startTimeRef, audioContext, streamTracks,
                 audioGraph, wrap, assets>>

\* everything but the note that a click was ignored
player == <<scenes, currentSceneIndex, currentDialogueIndex, isPlaying, isRecording,
            timers, audio, mediaRecorder, onstopPending, artifacts,
            lastCtl, visited, pausedAt, elapsed,
            mounted, rafPending, rafRefLive, startTimeRef, audioContext, streamTracks,
                 audioGraph, wrap, assets>>

\* the state of the Player component
sequencer == <<scenes, currentSceneIndex, currentDialogueIndex, isPlaying, isRecording,
               timers, audio, mediaRecorder, onstopPending, artifacts,
               lastCtl, visited, pausedAt, ignored, rejected, elapsed,
               mounted, rafPending, rafRefLive, startTimeRef, audioContext, streamTracks,
               audioGraph>>

cursor == <<currentSceneIndex, currentDialogueIndex>>

Max(a, b) == IF a >= b THEN a ELSE b

NoLine == <<-1, -1>>

\* ---- the project ----------------------------------------------------------
\* Which lines have an audioUrl: none, all, or every other one.
AudioPatterns == {"none", "all", "alternate"}
HasAudio(pat, i, j) == pat = "all" \/ (pat = "alternate" /\ (i + j) % 2 = 1)

\* The order fields as the array stores them: ascending, or descending (the
\* array is then not sorted by order).
Orderings == {"ascending", "descending"}
OrderOf(ord, n, i) == IF ord = "ascending" THEN i ELSE n + 1 - i

\* scene i of the array has MaxDlg + 1 - i lines (2 and 1 for two scenes)
NumLines(i) == Max(0, MaxDlg + 1 - i)

\* Which scenes have an imageUrl: all, none, or every other one.
ImagePatterns == {"all", "none", "alternate"}
HasImage(img, i) == img = "all" \/ (img = "alternate" /\ i % 2 = 1)

ProjectWith(n, pat, ord, img, len) ==
  [i \in 1..n |->
     [order |-> OrderOf(ord, n, i),
      imageUrl |-> HasImage(img, i),
      dialogues |-> [j \in 1..NumLines(i) |->
                       [audioUrl |-> HasAudio(pat, i, j), textLen |-> len]]]]

\* a project whose scenes all have their image and whose lines have TextLen characters
Project(n, pat, ord) == ProjectWith(n, pat, ord, "all", TextLen)

\* scenes as analyzeScript returns them: the array is stored as parsed
Projects ==
  {Project(n, pat, ord) : n \in 1..MaxScenes, pat \in AudioPatterns, ord \in Orderings}

\* the text lengths of those projects
TextLens == {k * TextLen : k \in 0..MaxTextFactor}

\* projects of one scene whose lines have 0, TextLen, 2 * TextLen, ... characters
DwellProjects ==
  {ProjectWith(1, "alternate", "ascending", "all", len) : len \in TextLens}

\* projects in which scenes lack their image
PlayerProjects ==
  {ProjectWith(n, "alternate", "ascending", img, TextLen) :
     n \in 1..MaxScenes, img \in ImagePatterns}

\* scenes[currentSceneIndex] (0-based index into a 1-based sequence)
CurrentScene(s) == scenes[s + 1]
HasScene(s) == s >= 0 /\ s < Len(scenes)
NumDialogues(s) == Len(CurrentScene(s).dialogues)
\* currentScene?.imageUrl
HasImageUrl(s) == HasScene(s) /\ CurrentScene(s).imageUrl

\* ---- audio element --------------------------------------------------------
\* status of the element; prePause and preSeek are history: the play() in
\* flight was called before the last pause, before a seek during playback
IdleAudio == [status |-> "idle", prePause |-> FALSE, preSeek |-> FALSE]
PendingAudio == [status |-> "pending", prePause |-> FALSE, preSeek |-> FALSE]

\* ---- timers ---------------------------------------------------------------
\* a callback with what its closure captured and uses (currentSceneIndex for
\* the scene timeout, isPlaying for handleDialogueEnd), the time left, and the
\* history marks prePause and preSeek
Timer(kind, capScene, capPlaying, rem) ==
  [kind |-> kind, capScene |-> capScene, capPlaying |-> capPlaying, rem |-> rem,
   prePause |-> FALSE, preSeek |-> FALSE]

AddTimer(tm, t) == tm (+) SetToBag({t})
RemoveTimer(tm, t) == tm (-) SetToBag({t})

\* the catch continuation of a play() promise that a new load or pause() aborted
AbortPlay(tm, au) ==
  IF au.status = "pending"
  THEN AddTimer(tm, [Timer("reject", 0, TRUE, 0) EXCEPT
                       !.prePause = au.prePause, !.preSeek = au.preSeek])
  ELSE tm

\* the duration without its floor of 2000 ms
Dwell_NoFloor(textLen) == textLen * MsPerChar
\* const duration = Math.max(2000, dialogue.text.length * 50)
Dwell(textLen) == Max(MinDwellMs, textLen * MsPerChar)

\* playNextDialogue without its branch for a line that has no audio
PlayNextDialogue_NoFallback(s, d, tm, au) ==
  IF ~HasScene(s)
  THEN [timers |-> tm, audio |-> au, entered |-> <<>>]
  ELSE IF d >= NumDialogues(s)
  THEN [timers |-> AddTimer(tm, Timer("scene", s, TRUE, InterScenePauseMs)),
        audio |-> au, entered |-> <<>>]
  ELSE LET dialogue == CurrentScene(s).dialogues[d + 1] IN
       IF dialogue.audioUrl
       THEN [timers |-> AbortPlay(tm, au), audio |-> PendingAudio,
             entered |-> <<<<s, d>>>>]
       ELSE [timers |-> tm, audio |-> au, entered |-> <<<<s, d>>>>]

\* handleDialogueEnd that never advances
HandleDialogueEnd_Stuck(capPlaying, prev) == prev

\* playNextDialogue of the render with cursor (s, d)
PlayNextDialogue(s, d, tm, au) ==
  IF ~HasScene(s)
  THEN [timers |-> tm, audio |-> au, entered |-> <<>>]
  ELSE IF d >= NumDialogues(s)
  THEN [timers |-> AddTimer(tm, Timer("scene", s, TRUE, InterScenePauseMs)),
        audio |-> au, entered |-> <<>>]
  ELSE LET dialogue == CurrentScene(s).dialogues[d + 1] IN
       IF dialogue.audioUrl
       THEN [timers |-> AbortPlay(tm, au), audio |-> PendingAudio,
             entered |-> <<<<s, d>>>>]
       ELSE [timers |-> AddTimer(tm, Timer("dwell", 0, TRUE, Dwell(dialogue.textLen))),
             audio |-> au, entered |-> <<<<s, d>>>>]

\* handleDialogueEnd of a render whose isPlaying was capPlaying
HandleDialogueEnd(capPlaying, prev) == IF ~capPlaying THEN prev ELSE prev + 1

\* useEffect(..., [currentDialogueIndex, currentSceneIndex, isPlaying])
SequencingEffect(s, d, p, tm, au) ==
  IF p
  THEN PlayNextDialogue(s, d, tm, au)
  ELSE [timers |-> AbortPlay(tm, au), audio |-> IdleAudio, entered |-> <<>>]

\* the runs whose visited lines are recorded
Tracked == {"play00", "record"}

\* one render after the batched updates, followed by the effect when a
\* dependency changed
\* ---- canvas rendering loop ------------------------------------------------
\* the frame requests as [pending |-> number, refLive |-> animationFrameRef names one]
\* cancelAnimationFrame(animationFrameRef.current)
CancelFrame(raf) ==
  IF raf.refLive THEN [pending |-> raf.pending - 1, refLive |-> FALSE] ELSE raf

\* animationFrameRef.current = requestAnimationFrame(render)
RequestFrame(raf) == [pending |-> raf.pending + 1, refLive |-> TRUE]

\* the cleanup the render effect of the render with scene s returned, if it returned one
RenderCleanup_Missing(s, raf) == raf
RenderCleanup(s, raf) == IF HasImageUrl(s) THEN CancelFrame(raf) ELSE raf

\* the render effect of a render with scene s and isPlaying p
RenderEffect(s, p, raf) ==
  IF ~HasImageUrl(s) THEN raf
  ELSE IF p THEN RequestFrame(raf) ELSE CancelFrame(raf)

\* the time origin of the animation, once the active scene index has changed
AgeOrigin(st) == IF st = "thisScene" THEN "earlierScene" ELSE st

\* one render after the batched updates, followed by the effects when a
\* dependency changed; the setters of an unmounted component do nothing
Commit(s, d, p, tm, au, ctl, vis) ==
  LET changed == mounted /\ <<s, d, p>> # <<currentSceneIndex, currentDialogueIndex, isPlaying>>
      eff == IF changed
             THEN SequencingEffect(s, d, p, tm, au)
             ELSE [timers |-> tm, audio |-> au, entered |-> <<>>]
      raf == [pending |-> rafPending, refLive |-> rafRefLive]
      raf2 == IF changed THEN RenderEffect(s, p, RenderCleanup(currentSceneIndex, raf)) ELSE raf
  IN /\ currentSceneIndex' = IF mounted THEN s ELSE currentSceneIndex
     /\ currentDialogueIndex' = IF mounted THEN d ELSE currentDialogueIndex
     /\ isPlaying' = IF mounted THEN p ELSE isPlaying
     /\ timers' = eff.timers
     /\ audio' = eff.audio
     /\ lastCtl' = ctl
     /\ ignored' = FALSE
     /\ visited' = IF ctl \in Tracked THEN vis \o eff.entered ELSE <<>>
     /\ rafPending' = raf2.pending
     /\ rafRefLive' = raf2.refLive
     /\ startTimeRef' = IF mounted /\ s # currentSceneIndex
                        THEN AgeOrigin(startTimeRef) ELSE startTimeRef
     /\ mounted' = mounted

\* no node of the audio graph exists; reused is history: the session that has not
\* yet delivered its file was started on a graph an earlier call had created
NoGraph == [contexts |-> 0, destinations |-> 0, sources |-> 0, reused |-> FALSE]

\* setupAudioContext without its guard
SetupAudioContext_Unguarded(ctx, g) ==
  [contexts |-> g.contexts + 1, destinations |-> g.destinations + 1,
   sources |-> g.sources + 1, reused |-> FALSE]
\* setupAudioContext: if (!audioContextRef.current && audioRef.current) { ... }
SetupAudioContext(ctx, g) ==
  IF ctx = "none"
  THEN [contexts |-> g.contexts + 1, destinations |-> g.destinations + 1,
        sources |-> g.sources + 1, reused |-> FALSE]
  ELSE [g EXCEPT !.reused = TRUE]

\* wrapText is not running; no asset of App is modelled
NoWrap == [pc |-> "none"]
NoAssets == [pc |-> "none"]

\* the state of a Player that has just been mounted
Mounted ==
  /\ currentSceneIndex = 0
  /\ currentDialogueIndex = 0
  /\ isPlaying = FALSE
  /\ isRecording = FALSE
  /\ timers = EmptyBag
  /\ audio = IdleAudio
  /\ mediaRecorder = "none"
  /\ onstopPending = FALSE
  /\ artifacts = 0
  /\ lastCtl = "other"
  /\ visited = <<>>
  /\ pausedAt = NoLine
  /\ ignored = FALSE
  /\ rejected = FALSE
  /\ elapsed = 0
  /\ mounted = TRUE
  /\ rafPending = 0
  /\ rafRefLive = FALSE
  /\ startTimeRef = "unset"
  /\ audioContext = "none"
  /\ streamTracks = "none"
  /\ audioGraph = NoGraph

\* no call of wrapText and no asset generation is followed
Apart == wrap = NoWrap /\ assets = NoAssets

Init == scenes \in Projects /\ Mounted /\ Apart

\* ---- history marks on callbacks in flight ---------------------------------
SetPause(t) == [t EXCEPT !.prePause = TRUE]
SetSeek(t) == [t EXCEPT !.preSeek = TRUE, !.prePause = FALSE]
UnsetPause(t) == [t EXCEPT !.prePause = FALSE]
MarkAudio(au, mark(_)) == IF au.status = "idle" THEN au ELSE mark(au)

\* callbacks in flight: the timers and the audio element's play promise or ended event
InFlight(tm, au) == BagCardinality(tm) + (IF au.status = "idle" THEN 0 ELSE 1)

\* a control is taken only while the callbacks it leaves in flight fit the bound
Room == InFlight(timers', audio') <= MaxPending

\* ---- controls -------------------------------------------------------------
\* the rewind button without its disabled attribute
RewindDisabled_Never == FALSE
RewindDisabled == isRecording
PlayPauseDisabled == isRecording
NextSceneDisabled == isRecording
\* the record button without its disabled attribute
RecordDisabled_Never == FALSE
RecordDisabled == isRecording \/ isPlaying

\* a click on a button rendered with disabled=true runs no handler
Ignore == ignored' = TRUE /\ rejected' = FALSE /\ UNCHANGED player

\* a control that took effect: the run it starts is timed from now
Control == rejected' = FALSE /\ elapsed' = 0

\* a callback that is not a rejected play()
Callback == rejected' = FALSE /\ UNCHANGED elapsed

CaptureUnchanged == UNCHANGED <<audioContext, streamTracks,
                 audioGraph, wrap, assets>>

RecorderUnchanged == UNCHANGED <<mediaRecorder, onstopPending, artifacts>>

\* rewind button: setCurrentSceneIndex(0); setCurrentDialogueIndex(0)
ClickRewind ==
  /\ mounted
  /\ IF RewindDisabled THEN Ignore
     ELSE LET seek == isPlaying /\ cursor # <<0, 0>>
              tm == IF seek THEN BagOfAll(SetSeek, timers) ELSE BagOfAll(UnsetPause, timers)
              au == IF seek THEN MarkAudio(audio, SetSeek) ELSE MarkAudio(audio, UnsetPause)
          IN /\ Commit(0, 0, isPlaying, tm, au, "other", <<>>)
             /\ Room
             /\ pausedAt' = NoLine
             /\ UNCHANGED <<scenes, isRecording>>
             /\ RecorderUnchanged /\ CaptureUnchanged /\ Control

\* play/pause button: setIsPlaying(!isPlaying)
ClickPlayPause ==
  /\ mounted
  /\ IF PlayPauseDisabled THEN Ignore
     ELSE LET tm == IF isPlaying THEN BagOfAll(SetPause, timers) ELSE timers
              au == IF isPlaying THEN MarkAudio(audio, SetPause) ELSE audio
              ctl == IF ~isPlaying /\ cursor = <<0, 0>> THEN "play00" ELSE "other"
          IN /\ Commit(currentSceneIndex, currentDialogueIndex, ~isPlaying, tm, au, ctl, <<>>)
             /\ Room
             /\ pausedAt' = IF isPlaying THEN cursor ELSE NoLine
             /\ UNCHANGED <<scenes, isRecording>>
             /\ RecorderUnchanged /\ CaptureUnchanged /\ Control

\* next-scene button: if (currentSceneIndex < scenes.length - 1) setCurrentSceneIndex(prev => prev + 1)
NextSceneIndex(s) == IF s < Len(scenes) - 1 THEN s + 1 ELSE s

ClickNextScene ==
  /\ mounted
  /\ IF NextSceneDisabled THEN Ignore
     ELSE LET s2 == NextSceneIndex(currentSceneIndex)
              seek == isPlaying /\ s2 # currentSceneIndex
              tm == IF seek THEN BagOfAll(SetSeek, timers) ELSE BagOfAll(UnsetPause, timers)
              au == IF seek THEN MarkAudio(audio, SetSeek) ELSE MarkAudio(audio, UnsetPause)
          IN /\ Commit(s2, currentDialogueIndex, isPlaying, tm, au, "other", <<>>)
             /\ Room
             /\ pausedAt' = NoLine
             /\ UNCHANGED <<scenes, isRecording>>
             /\ RecorderUnchanged /\ CaptureUnchanged /\ Control

\* ---- recording ------------------------------------------------------------
\* what a call of startRecording can meet: every capture API works,
\* setupAudioContext throws before it has stored a context, new MediaRecorder
\* throws (the context and the streams exist by then), or recorder.start() throws
CaptureOutcomes == {"ok", "setupThrows", "recorderThrows", "startThrows"}

\* startRecording without its "Reset playback"
RecordCursor_Keep == cursor
\* "Reset playback" of startRecording
RecordCursor == <<0, 0>>

StartRecording(outcome) ==
  /\ isRecording' = TRUE
  /\ Commit(RecordCursor[1], RecordCursor[2],
            IF outcome = "ok" THEN TRUE ELSE isPlaying,
            BagOfAll(UnsetPause, timers), MarkAudio(audio, UnsetPause),
            IF outcome = "ok" THEN "record" ELSE "recordFailed", <<>>)
  /\ mediaRecorder' = CASE outcome = "ok" -> "recording"
                        [] outcome = "startThrows" -> "inactive"
                        [] OTHER -> mediaRecorder
  /\ artifacts' = IF outcome \in {"setupThrows", "recorderThrows"} THEN artifacts ELSE 0
  /\ audioContext' = IF outcome # "setupThrows" /\ audioContext = "none"
                     THEN "running" ELSE audioContext
  /\ streamTracks' = IF outcome # "setupThrows" THEN "live" ELSE streamTracks
  /\ audioGraph' = IF outcome # "setupThrows"
                   THEN SetupAudioContext(audioContext, audioGraph) ELSE audioGraph
  /\ pausedAt' = NoLine
  /\ Control
  /\ UNCHANGED <<scenes, onstopPending, wrap, assets>>

ClickRecord(outcome) ==
  /\ mounted
  /\ IF RecordDisabled THEN Ignore
     ELSE StartRecording(outcome) /\ Room

\* stopRecording: stop() on a recorder that is not inactive queues its stop event
StopRecording ==
  IF mediaRecorder = "recording"
  THEN mediaRecorder' = "inactive" /\ onstopPending' = TRUE
  ELSE UNCHANGED <<mediaRecorder, onstopPending>>

\* recorder.onstop: download the blob, setIsRecording(false), setIsPlaying(false)
RecorderOnStop ==
  /\ onstopPending
  /\ onstopPending' = FALSE
  /\ artifacts' = artifacts + 1
  /\ isRecording' = IF mounted THEN FALSE ELSE isRecording
  /\ Commit(currentSceneIndex, currentDialogueIndex, FALSE, timers, audio, lastCtl, visited)
  /\ audioGraph' = [audioGraph EXCEPT !.reused = FALSE]
  /\ UNCHANGED <<scenes, mediaRecorder, pausedAt, audioContext, streamTracks, wrap, assets>>
  /\ Callback

\* ---- callbacks ------------------------------------------------------------
Due(t) == BagIn(t, timers) /\ t.rem = 0

\* setTimeout(handleDialogueEnd, duration), or the catch of a rejected play()
FireDialogueEnd(t) ==
  /\ Due(t)
  /\ t.kind \in {"dwell", "reject"}
  /\ Commit(currentSceneIndex, HandleDialogueEnd(t.capPlaying, currentDialogueIndex),
            isPlaying, RemoveTimer(timers, t), audio, lastCtl, visited)
  /\ UNCHANGED <<scenes, isRecording, pausedAt>>
  /\ RecorderUnchanged /\ CaptureUnchanged /\ Callback

\* the callback of the "Scene Finished" timeout
FireSceneFinished(t) ==
  /\ Due(t)
  /\ t.kind = "scene"
  /\ IF t.capScene < Len(scenes) - 1
     THEN /\ Commit(currentSceneIndex + 1, 0, isPlaying, RemoveTimer(timers, t), audio,
                    lastCtl, visited)
          /\ UNCHANGED <<mediaRecorder, onstopPending>>
     ELSE /\ Commit(currentSceneIndex, currentDialogueIndex, FALSE,
                    RemoveTimer(timers, t), audio, lastCtl, visited)
          /\ StopRecording
  /\ UNCHANGED <<scenes, isRecording, artifacts, pausedAt>>
  /\ CaptureUnchanged /\ Callback

\* await audioRef.current.play() resolves: playback of the line has begun
AudioPlayResolved ==
  /\ audio.status = "pending"
  /\ audio' = [audio EXCEPT !.status = "playing"]
  /\ ignored' = FALSE
  /\ Callback
  /\ UNCHANGED <<scenes, currentSceneIndex, currentDialogueIndex, isPlaying, isRecording,
                 timers, mediaRecorder, onstopPending, artifacts,
                 lastCtl, visited, pausedAt,
                 mounted, rafPending, rafRefLive, startTimeRef, audioContext, streamTracks,
                 audioGraph, wrap, assets>>

\* play() is rejected by the audio engine: catch -> handleDialogueEnd()
AudioPlayRejected ==
  /\ audio.status = "pending"
  /\ Commit(currentSceneIndex, HandleDialogueEnd(TRUE, currentDialogueIndex),
            isPlaying, timers, IdleAudio, lastCtl, visited)
  /\ rejected' = TRUE
  /\ UNCHANGED <<scenes, isRecording, pausedAt, elapsed>>
  /\ RecorderUnchanged /\ CaptureUnchanged

\* <audio onEnded={handleDialogueEnd}>: the handler of the latest render
AudioEnded ==
  /\ audio.status = "playing"
  /\ Commit(currentSceneIndex, HandleDialogueEnd(isPlaying, currentDialogueIndex),
            isPlaying, timers, IdleAudio, lastCtl, visited)
  /\ UNCHANGED <<scenes, isRecording, pausedAt>>
  /\ RecorderUnchanged /\ CaptureUnchanged /\ Callback

\* the run that is timed: an all-silent project played from (0,0)
AllSilent ==
  \A i \in DOMAIN scenes : \A j \in DOMAIN scenes[i].dialogues : ~scenes[i].dialogues[j].audioUrl
Timed == lastCtl = "play00" /\ isPlaying /\ AllSilent

\* time passes; a timer that is due runs before later time is reached
Elapse(t) == [t EXCEPT !.rem = Max(0, t.rem - TickMs)]

Tick ==
  /\ timers # EmptyBag
  /\ \A t \in BagToSet(timers) : t.rem > 0
  /\ timers' = BagOfAll(Elapse, timers)
  /\ ignored' = FALSE
  /\ rejected' = FALSE
  /\ elapsed' = IF Timed THEN elapsed + TickMs ELSE elapsed
  /\ UNCHANGED <<scenes, currentSceneIndex, currentDialogueIndex, isPlaying, isRecording,
                 audio, mediaRecorder, onstopPending, artifacts,
                 lastCtl, visited, pausedAt,
                 mounted, rafPending, rafRefLive, startTimeRef, audioContext, streamTracks,
                 audioGraph, wrap, assets>>

\* ---- the component's life cycle -------------------------------------------
\* a frame request runs render(timestamp): it sets the time origin if it is
\* unset and, its closure's isPlaying being true, requests the next frame
RenderFrame ==
  /\ rafPending > 0
  /\ startTimeRef' = IF startTimeRef = "unset" THEN "thisScene" ELSE startTimeRef
  /\ rafRefLive' = TRUE
  /\ ignored' = FALSE
  /\ Callback
  /\ UNCHANGED <<scenes, currentSceneIndex, currentDialogueIndex, isPlaying, isRecording,
                 timers, audio, mediaRecorder, onstopPending, artifacts,
                 lastCtl, visited, pausedAt,
                 mounted, rafPending, audioContext, streamTracks,
                 audioGraph, wrap, assets>>

\* App leaves the view 'preview' (sidebar, mobile bar or the back button): React
\* unmounts the Player and runs the cleanups its effects returned
Unmount ==
  /\ mounted
  /\ mounted' = FALSE
  /\ LET raf == RenderCleanup(currentSceneIndex, [pending |-> rafPending, refLive |-> rafRefLive])
     IN rafPending' = raf.pending /\ rafRefLive' = raf.refLive
  /\ ignored' = FALSE
  /\ Callback
  /\ UNCHANGED <<scenes, currentSceneIndex, currentDialogueIndex, isPlaying, isRecording,
                 timers, audio, mediaRecorder, onstopPending, artifacts,
                 lastCtl, visited, pausedAt, startTimeRef, audioContext, streamTracks,
                 audioGraph, wrap, assets>>

Next ==
  \/ ClickRewind
  \/ ClickPlayPause
  \/ ClickNextScene
  \/ \E outcome \in CaptureOutcomes : ClickRecord(outcome)
  \/ RecorderOnStop
  \/ \E t \in BagToSet(timers) : FireDialogueEnd(t)
  \/ \E t \in BagToSet(timers) : FireSceneFinished(t)
  \/ AudioPlayResolved
  \/ AudioPlayRejected
  \/ AudioEnded
  \/ Tick

Spec == Init /\ [][Next]_vars

\* the same player with lines of several lengths
DwellInit == scenes \in DwellProjects /\ Mounted /\ Apart
DwellSpec == DwellInit /\ [][Next]_vars

\* the player with its rendering loop and its unmounting
PlayerInit == scenes \in PlayerProjects /\ Mounted /\ Apart
PlayerNext == Next \/ RenderFrame \/ Unmount
PlayerSpec == PlayerInit /\ [][PlayerNext]_vars

\* The callbacks run whenever they are due, the audio element settles every
\* play() and ends every clip it plays, the recorder delivers its stop event;
\* nothing obliges the user to click.
Callbacks ==
  \/ \E t \in BagToSet(timers) : FireDialogueEnd(t)
  \/ \E t \in BagToSet(timers) : FireSceneFinished(t)
  \/ AudioPlayRejected
  \/ AudioEnded

FairSpec ==
  /\ Spec
  /\ WF_vars(Tick)
  /\ WF_vars(\E t \in BagToSet(timers) : FireDialogueEnd(t))
  /\ WF_vars(\E t \in BagToSet(timers) : FireSceneFinished(t))
  /\ WF_vars(AudioPlayResolved \/ AudioPlayRejected)
  /\ WF_vars(AudioEnded)
  /\ WF_vars(RecorderOnStop)

\* ---- subtitle word wrap ---------------------------------------------------
\* A text is a sequence of characters; the font is a width for each character.
Chars == {"a", "W", " "}
Texts == UNION {[1..k -> Chars] : k \in 0..MaxTextChars}
CharWidth(c) == IF c = "W" THEN 2 ELSE 1

\* ctx.measureText(str).width
RECURSIVE MeasureText(_)
MeasureText(str) ==
  IF str = <<>> THEN 0 ELSE CharWidth(Head(str)) + MeasureText(Tail(str))

\* position of the first space of str, 0 if it has none
RECURSIVE FirstSpace(_, _)
FirstSpace(str, i) ==
  IF i > Len(str) THEN 0
  ELSE IF str[i] = " " THEN i ELSE FirstSpace(str, i + 1)

\* str.split(' ')
RECURSIVE Split(_)
Split(str) ==
  LET i == FirstSpace(str, 1)
  IN IF i = 0 THEN <<str>>
     ELSE <<SubSeq(str, 1, i - 1)>> \o Split(SubSeq(str, i + 1, Len(str)))

\* a break that never happens
Overflows_Never(testWidth, maxWidth, n) == FALSE
\* if (testWidth > maxWidth && n > 0)
Overflows(testWidth, maxWidth, n) == testWidth > maxWidth /\ n > 0

\* a new line that drops the word that did not fit
StartLine_Empty(word) == <<>>
\* line = words[n] + ' '
StartLine(word) == word \o <<" ">>

\* wrapText(ctx, text, x, y, maxWidth, lineHeight) on entry of its loop
WrapText(text, y, maxWidth, lineHeight) ==
  [pc |-> "loop", text |-> text, maxWidth |-> maxWidth, lineHeight |-> lineHeight,
   words |-> Split(text), n |-> 0, line |-> <<>>, y |-> y, out |-> <<>>]

\* ctx.fillText(line, x, y)
FillText(w) == Append(w.out, [text |-> w.line, y |-> w.y])

\* one pass of the loop over the words
WrapLoop(w) ==
  LET word == w.words[w.n + 1]
      testLine == w.line \o word \o <<" ">>
  IN IF Overflows(MeasureText(testLine), w.maxWidth, w.n)
     THEN [w EXCEPT !.out = FillText(w), !.line = StartLine(word),
                    !.y = w.y + w.lineHeight, !.n = w.n + 1]
     ELSE [w EXCEPT !.line = testLine, !.n = w.n + 1]

WrapStep ==
  /\ wrap.pc = "loop"
  /\ wrap.n < Len(wrap.words)
  /\ wrap' = WrapLoop(wrap)
  /\ UNCHANGED <<sequencer, assets>>

\* the fillText after the loop
WrapFlush ==
  /\ wrap.pc = "loop"
  /\ wrap.n = Len(wrap.words)
  /\ wrap' = [wrap EXCEPT !.out = FillText(wrap), !.pc = "done"]
  /\ UNCHANGED <<sequencer, assets>>

\* wrapText applied to every text and every width; the subtitle is drawn at one
\* height with the line height of the call in render
WrapInit ==
  /\ scenes = Project(1, "none", "ascending") /\ Mounted /\ assets = NoAssets
  /\ wrap \in {WrapText(text, 0, maxWidth, LineHeight) :
                 text \in Texts, maxWidth \in 1..MaxLineWidth}
WrapNext == WrapStep \/ WrapFlush
WrapSpec == WrapInit /\ [][WrapNext]_vars

\* the words of an emitted line: it ends with the space that follows its last word
LineWords(str) == LET ws == Split(str) IN SubSeq(ws, 1, Len(ws) - 1)

RECURSIVE WordsOfLines(_)
WordsOfLines(out) ==
  IF out = <<>> THEN <<>> ELSE LineWords(Head(out).text) \o WordsOfLines(Tail(out))

\* ---- asset generation (App and Storyboard) --------------------------------
\* analysis as far as the generations touch it: scenes with their image and
\* their lines with their audio, characters with their avatar.  The ids are
\* the keys of the project; the lines of two scenes may bear the same id.
SceneIds == {1, 2}
LineIds(i) == IF i = 1 THEN {1, 2} ELSE {1}
CharacterIds == {1, 2}

Analysis ==
  [scenes |-> [i \in SceneIds |->
                 [id |-> i, imageUrl |-> "none", isGeneratingImage |-> FALSE,
                  dialogues |-> [j \in LineIds(i) |->
                                   [id |-> j, audioUrl |-> "none",
                                    isGeneratingAudio |-> FALSE]]]],
   characters |-> [k \in CharacterIds |-> [id |-> k, avatarUrl |-> "none"]]]

\* { ...e, ...updates }
Merge(e, updates) ==
  [f \in DOMAIN e |-> IF f \in DOMAIN updates THEN updates[f] ELSE e[f]]

\* s.id === sceneId, d.id === dialogueId, c.id === charId
IsTarget(e, id) == e.id = id

\* the updater updateScene hands to setAnalysis, applied to the state prev
UpdateScene(prev, sceneId, updates) ==
  [prev EXCEPT !.scenes =
     [i \in DOMAIN prev.scenes |->
        IF IsTarget(prev.scenes[i], sceneId)
        THEN Merge(prev.scenes[i], updates) ELSE prev.scenes[i]]]

UpdateDialogue(prev, sceneId, dialogueId, updates) ==
  [prev EXCEPT !.scenes =
     [i \in DOMAIN prev.scenes |->
        IF ~IsTarget(prev.scenes[i], sceneId) THEN prev.scenes[i]
        ELSE [prev.scenes[i] EXCEPT !.dialogues =
                [j \in DOMAIN prev.scenes[i].dialogues |->
                   IF IsTarget(prev.scenes[i].dialogues[j], dialogueId)
                   THEN Merge(prev.scenes[i].dialogues[j], updates)
                   ELSE prev.scenes[i].dialogues[j]]]]]

UpdateCharacter(prev, charId, updates) ==
  [prev EXCEPT !.characters =
     [k \in DOMAIN prev.characters |->
        IF IsTarget(prev.characters[k], charId)
        THEN Merge(prev.characters[k], updates) ELSE prev.characters[k]]]

\* an updater that starts from the analysis its handler captured
Prev_Captured(current, captured) == captured
\* setAnalysis(prev => ...): prev is the state when the updater runs, not the
\* analysis captured by the closure that called setAnalysis
Prev(current, captured) == current

\* a generation awaiting its service: what it is for, the ids it was given and
\* the analysis of the render whose handler started it
Request(kind, sceneId, otherId) ==
  [kind |-> kind, scene |-> sceneId, id |-> otherId, captured |-> assets.analysis]

NoFailure == [kind |-> "none", scene |-> 0, id |-> 0]

\* the request now awaits; the handler goes on when the service settles;
\* started counts the generations the user has started
Await(r, analysis) ==
  /\ assets.started < MaxGenerations
  /\ assets' = [assets EXCEPT !.analysis = analysis, !.inflight = @ (+) SetToBag({r}),
                              !.started = @ + 1, !.failed = NoFailure]
  /\ UNCHANGED <<sequencer, wrap>>

\* the request r settles: in any order, the services answer when they will;
\* failed is history: the last step was the catch of the generation it names
Settle(r, ok, analysis) ==
  /\ assets' = [assets EXCEPT
                  !.analysis = analysis, !.inflight = @ (-) SetToBag({r}),
                  !.failed = IF ok THEN NoFailure
                             ELSE [kind |-> r.kind, scene |-> r.scene, id |-> r.id]]
  /\ UNCHANGED <<sequencer, wrap>>

Awaiting(kind) ==
  IF assets.pc = "none" THEN {}
  ELSE {r \in BagToSet(assets.inflight) : r.kind = kind}

\* a catch that leaves the flag of the scene set
ImageFailure_FlagLeft == [isGeneratingImage |-> TRUE]
\* the updates of the catch blocks: onUpdateScene(scene.id, { isGeneratingImage: false })
ImageFailure == [isGeneratingImage |-> FALSE]
AudioFailure == [isGeneratingAudio |-> FALSE]

\* handleGenerateSceneImage up to its await
GenerateSceneImage(i) ==
  /\ assets.pc = "app"
  /\ LET scene == assets.analysis.scenes[i]
     IN /\ ~scene.isGeneratingImage
        /\ Await(Request("image", scene.id, 0),
                 UpdateScene(Prev(assets.analysis, assets.analysis), scene.id,
                             [isGeneratingImage |-> TRUE]))

\* handleGenerateSceneImage after its await: the url, or the catch
SceneImageSettled(r, ok) ==
  /\ r \in Awaiting("image")
  /\ Settle(r, ok, IF ok
                  THEN UpdateScene(Prev(assets.analysis, r.captured), r.scene,
                                   [imageUrl |-> "url", isGeneratingImage |-> FALSE])
                  ELSE UpdateScene(Prev(assets.analysis, r.captured), r.scene,
                                   ImageFailure))

\* handleGenerateAudio up to its await
GenerateAudio(i, j) ==
  /\ assets.pc = "app"
  /\ LET scene == assets.analysis.scenes[i]
         dialogue == scene.dialogues[j]
     IN /\ ~dialogue.isGeneratingAudio
        /\ Await(Request("audio", scene.id, dialogue.id),
                 UpdateDialogue(Prev(assets.analysis, assets.analysis), scene.id, dialogue.id,
                                [isGeneratingAudio |-> TRUE]))

\* handleGenerateAudio after its await
AudioSettled(r, ok) ==
  /\ r \in Awaiting("audio")
  /\ Settle(r, ok, IF ok
                  THEN UpdateDialogue(Prev(assets.analysis, r.captured), r.scene, r.id,
                                      [audioUrl |-> "url", isGeneratingAudio |-> FALSE])
                  ELSE UpdateDialogue(Prev(assets.analysis, r.captured), r.scene, r.id,
                                      AudioFailure))

\* handleGenerateCharacterImage up to its await: no flag guards it
GenerateCharacterImage(k) ==
  /\ assets.pc = "app"
  /\ Await(Request("avatar", 0, assets.analysis.characters[k].id), assets.analysis)

\* handleGenerateCharacterImage after its await; its catch only alerts
CharacterImageSettled(r, ok) ==
  /\ r \in Awaiting("avatar")
  /\ Settle(r, ok, IF ok
                  THEN UpdateCharacter(Prev(assets.analysis, r.captured), r.id,
                                       [avatarUrl |-> "url"])
                  ELSE assets.analysis)

\* the storyboard of a project that was just analysed
AssetInit ==
  /\ scenes = Project(1, "none", "ascending") /\ Mounted /\ wrap = NoWrap
  /\ assets = [pc |-> "app", analysis |-> Analysis, inflight |-> EmptyBag,
               started |-> 0, failed |-> NoFailure]

AssetNext ==
  \/ \E i \in SceneIds : GenerateSceneImage(i)
  \/ \E i \in SceneIds : \E j \in LineIds(i) : GenerateAudio(i, j)
  \/ \E k \in CharacterIds : GenerateCharacterImage(k)
  \/ \E r \in Awaiting("image") : \E ok \in BOOLEAN : SceneImageSettled(r, ok)
  \/ \E r \in Awaiting("audio") : \E ok \in BOOLEAN : AudioSettled(r, ok)
  \/ \E r \in Awaiting("avatar") : \E ok \in BOOLEAN : CharacterImageSettled(r, ok)

AssetSpec == AssetInit /\ [][AssetNext]_vars

\* the scenes, lines and characters of analysis by position, and their own fields
Entities ==
  UNION {{[kind |-> "scene", s |-> i, d |-> 0] : i \in SceneIds},
         UNION {{[kind |-> "dialogue", s |-> i, d |-> j] : j \in LineIds(i)} : i \in SceneIds},
         {[kind |-> "character", s |-> 0, d |-> k] : k \in CharacterIds}}

Fields(a, e) ==
  CASE e.kind = "scene" ->
         [id |-> a.scenes[e.s].id, imageUrl |-> a.scenes[e.s].imageUrl,
          isGeneratingImage |-> a.scenes[e.s].isGeneratingImage]
    [] e.kind = "dialogue" -> a.scenes[e.s].dialogues[e.d]
    [] e.kind = "character" -> a.characters[e.d]

\* the entities a request names
TargetsOf(a, r) ==
  {e \in Entities :
     CASE r.kind = "image" -> e.kind = "scene" /\ a.scenes[e.s].id = r.scene
       [] r.kind = "audio" -> /\ e.kind = "dialogue" /\ a.scenes[e.s].id = r.scene
                              /\ a.scenes[e.s].dialogues[e.d].id = r.id
       [] r.kind = "avatar" -> e.kind = "character" /\ a.characters[e.d].id = r.id}

\* the fields a generation of this kind delivers
AssetFields(kind) ==
  CASE kind = "image" -> {"imageUrl", "isGeneratingImage"}
    [] kind = "audio" -> {"audioUrl", "isGeneratingAudio"}
    [] kind = "avatar" -> {"avatarUrl"}

TypeOK ==
  /\ currentSceneIndex \in Nat
  /\ currentDialogueIndex \in Nat
  /\ InFlight(timers, audio) <= MaxPending
  /\ artifacts \in 0..1

\* ---- the lines of the project ---------------------------------------------
IsPrefix(a, b) == Len(a) <= Len(b) /\ a = SubSeq(b, 1, Len(a))

LinesOfScene(i) == [j \in 1..Len(scenes[i].dialogues) |-> <<i - 1, j - 1>>]

RECURSIVE LinesUpTo(_)
LinesUpTo(n) == IF n = 0 THEN <<>> ELSE LinesUpTo(n - 1) \o LinesOfScene(n)

\* every dialogue line, scene index ascending, dialogue index ascending
AllLines == LinesUpTo(Len(scenes))

SceneOrder(line) == scenes[line[1] + 1].order

\* C1: a run started by play() at cursor (0,0) with isPlaying=false, and not
\* touched by another control, visits every line exactly once in the order
\* (scene index, dialogue index) and has visited all of them when it is Finished
\* (isPlaying=false again).
C1_UninterruptedRun ==
  lastCtl = "play00" =>
    /\ IsPrefix(visited, AllLines)
    /\ ~isPlaying => visited = AllLines

\* C2: while isPlaying=false no dwell timer, scene timer, audio-ended event or
\* rejected play() changes the cursor or isPlaying.
C2_PauseFreezesCursor ==
  [][(~isPlaying /\ Callbacks) => UNCHANGED <<cursor, isPlaying>>]_vars

\* C3: after a pause at (s,d) and play() with no other control the active line
\* is (s,d), and no callback scheduled before the pause advances the cursor, so
\* that the line is left by the one advance of its own callback.
C3_ResumeSameLine ==
  [][/\ (ClickPlayPause /\ ~PlayPauseDisabled /\ ~isPlaying /\ pausedAt # NoLine)
          => cursor = pausedAt
     /\ \A t \in BagToSet(timers) :
          ((FireDialogueEnd(t) \/ FireSceneFinished(t)) /\ t.prePause)
            => UNCHANGED cursor
     /\ ((AudioEnded \/ AudioPlayRejected) /\ audio.prePause) => UNCHANGED cursor]_vars

\* C4: between a successful startRecording and the finalize of that session the
\* cursor visits every line exactly once in order from (0,0), and the recorder
\* is not stopped before all of them were visited.
C4_RecordingFullRun ==
  lastCtl = "record" =>
    /\ IsPrefix(visited, AllLines)
    /\ mediaRecorder = "inactive" => visited = AllLines

\* C5: a recording session never yields more than one artifact, and every
\* session that started eventually ends with exactly one artifact,
\* isRecording=false and isPlaying=false.
C5_OneArtifactPerSession ==
  /\ [](artifacts <= 1)
  /\ (lastCtl = "record" /\ isRecording)
       ~> (artifacts = 1 /\ ~isRecording /\ ~isPlaying)

\* C6: after a startRecording that failed (a capture API unavailable or
\* throwing) isRecording=false and isPlaying=false and the transport controls
\* are enabled.
C6_CaptureFailureResets ==
  lastCtl = "recordFailed" =>
    /\ ~isRecording /\ ~isPlaying
    /\ ~RewindDisabled /\ ~PlayPauseDisabled /\ ~NextSceneDisabled

\* C7: a dwell timer, scene timer or audio-ended event that was in flight when
\* rewind or nextScene moved the cursor during playback does not change the
\* scene index or the dialogue index when it fires.
C7_StaleAfterSeekIgnored ==
  [][/\ \A t \in BagToSet(timers) :
          ((FireDialogueEnd(t) \/ FireSceneFinished(t)) /\ t.kind # "reject" /\ t.preSeek)
            => UNCHANGED cursor
     /\ (AudioEnded /\ audio.preSeek) => UNCHANGED cursor]_vars

\* C8: while isRecording=true a click on play/pause, rewind or nextScene leaves
\* sceneIndex, dialogueIndex, isPlaying and isRecording unchanged.
C8_TransportNoOpWhileRecording ==
  [][(isRecording /\ (ClickRewind \/ ClickPlayPause \/ ClickNextScene))
       => UNCHANGED <<currentSceneIndex, currentDialogueIndex, isPlaying, isRecording>>]_vars

\* a transport button was clicked during a recording that is under way
C8_Witness == isRecording /\ ignored /\ isPlaying /\ cursor # <<0, 0>>

\* C9: right after a successful startRecording sceneIndex=0, dialogueIndex=0,
\* isRecording=true and isPlaying=true, wherever the cursor was.
C9_RecordResetsAndPlays ==
  [][(ClickRecord("ok") /\ ~RecordDisabled)
       => (currentSceneIndex' = 0 /\ currentDialogueIndex' = 0
           /\ isRecording' /\ isPlaying')]_vars

\* a session has just started: nothing visited yet but its first line
C9_Witness ==
  /\ lastCtl = "record" /\ isRecording /\ isPlaying /\ cursor = <<0, 0>>
  /\ Len(visited) <= 1
  /\ mediaRecorder = "recording"

\* C10: playback visits the scenes in ascending value of their order field,
\* whatever their position in the array.
C10_ScenesInAscendingOrder ==
  \A i, j \in DOMAIN visited :
    i < j => SceneOrder(visited[i]) <= SceneOrder(visited[j])

\* C11: the sequencer's scene timeout increments the scene index, or declares
\* Finished, only when the dialogue index has passed the last line of the scene
\* that is current when it fires (it is due only once its 1000 ms have
\* elapsed); an advance sets sceneIndex + 1 and dialogueIndex = 0 together,
\* Finished keeps the cursor; no other callback changes the scene index.
C11_SceneAdvanceOnlyAfterTransition ==
  [][/\ \A t \in BagToSet(timers) :
          (mounted /\ FireSceneFinished(t)) =>
            /\ HasScene(currentSceneIndex)
            /\ currentDialogueIndex >= NumDialogues(currentSceneIndex)
            /\ \/ cursor' = <<currentSceneIndex + 1, 0>> /\ isPlaying' = isPlaying
               \/ cursor' = cursor /\ ~isPlaying'
     /\ ((\E t \in BagToSet(timers) : FireDialogueEnd(t)) \/ AudioPlayRejected \/ AudioEnded)
          => currentSceneIndex' = currentSceneIndex]_vars

C13_RewindResetsCursor ==
  [][(ClickRewind /\ ~RewindDisabled) =>
       (cursor' = <<0, 0>> /\ ~isPlaying' /\ ~isRecording')]_vars

\* dwell timers that are still waiting
WaitingDwells(tm) ==
  BagCardinality([t \in {u \in BagToSet(tm) : u.kind = "dwell" /\ u.rem > 0} |-> tm[t]])

\* the sequencing effect runs for a render that shows a line
EntersLine ==
  /\ mounted /\ isPlaying'
  /\ <<cursor, isPlaying>>' # <<cursor, isPlaying>>
  /\ HasScene(currentSceneIndex')
  /\ currentDialogueIndex' < NumDialogues(currentSceneIndex')

EnteredLine == CurrentScene(currentSceneIndex').dialogues[currentDialogueIndex' + 1]

\* C14: on entering a line while playing the sequencer starts the line's audio
\* and schedules no dwell if the line has an audioUrl; otherwise it starts no
\* play() and schedules one dwell timer; a dwell timer that fires during
\* playback advances the dialogue index by one, so a silent line does not stall.
C14_EntryDecision ==
  [][/\ EntersLine =>
          IF EnteredLine.audioUrl
          THEN audio' = PendingAudio /\ WaitingDwells(timers') = WaitingDwells(timers)
          ELSE /\ WaitingDwells(timers') = WaitingDwells(timers) + 1
               /\ audio'.status \in {audio.status, "idle"}
     /\ \A t \in BagToSet(timers) :
          (FireDialogueEnd(t) /\ t.kind = "dwell" /\ mounted /\ isPlaying)
            => currentDialogueIndex' = currentDialogueIndex + 1]_vars

\* the dwell path was taken for the silent line (0,0) and the audio path for
\* the line (0,1) that follows it
C14_Witness ==
  /\ lastCtl = "play00" /\ isPlaying
  /\ visited = <<<<0, 0>>, <<0, 1>>>>
  /\ ~scenes[1].dialogues[1].audioUrl /\ scenes[1].dialogues[2].audioUrl
  /\ audio.status = "pending" /\ WaitingDwells(timers) = 0

\* dwell timers that wait for r ms
DwellsOf(tm, r) ==
  BagCardinality([t \in {u \in BagToSet(tm) : u.kind = "dwell" /\ u.rem = r} |-> tm[t]])

\* C15: the dwell timer scheduled for a silent line of len characters waits
\* max(2000, 50 * len) ms; over the text lengths the duration is never below
\* 2000 and does not decrease when the text gets longer.
C15_DwellDuration ==
  [][(EntersLine /\ ~EnteredLine.audioUrl) =>
       LET len == EnteredLine.textLen
           want == IF 50 * len >= 2000 THEN 50 * len ELSE 2000
       IN /\ DwellsOf(timers', want) = DwellsOf(timers, want) + 1
          /\ WaitingDwells(timers') = WaitingDwells(timers) + 1
          /\ \A a \in TextLens : Dwell(a) >= 2000
          /\ \A a, b \in TextLens : a <= b => Dwell(a) <= Dwell(b)]_vars

\* a silent line of more than 40 characters has just been entered: its dwell
\* timer waits 50 ms per character
C15_Witness ==
  /\ mounted /\ isPlaying /\ cursor = <<0, 0>>
  /\ ~scenes[1].dialogues[1].audioUrl
  /\ scenes[1].dialogues[1].textLen > 40
  /\ DwellsOf(timers, 50 * scenes[1].dialogues[1].textLen) = 1

\* the dwell times of the lines of scenes 1..n plus 1000 ms per scene
RECURSIVE DwellSum(_)
DwellSum(lines) ==
  IF lines = <<>> THEN 0 ELSE Dwell(Head(lines).textLen) + DwellSum(Tail(lines))

RECURSIVE RunMs(_)
RunMs(n) == IF n = 0 THEN 0 ELSE RunMs(n - 1) + DwellSum(scenes[n].dialogues) + 1000

\* C16: in a project whose lines all lack audio, a run started by play() at
\* (0,0) and not touched by another control is Finished (isPlaying=false) after
\* the sum of the dwell times of all lines plus 1000 ms per scene: 3000 ms for
\* one scene with one silent line of 10 characters.
C16_SilentRunTiming ==
  (lastCtl = "play00" /\ AllSilent /\ mounted /\ ~isPlaying) => elapsed = RunMs(Len(scenes))

\* C17: the elapsed time a frame feeds to the zoom/pan transform is measured
\* from a time origin taken since the active scene index last changed: every
\* frame finds, or sets, an origin that belongs to the scene it draws.
C17_ClockResetsPerScene ==
  [][RenderFrame => startTimeRef' = "thisScene"]_vars

\* C18: at most one frame request is pending at any time, and a request is
\* pending only while the component is mounted and isPlaying=true: none
\* survives a pause or the unmounting.
C18_FrameHandleDiscipline ==
  /\ rafPending <= 1
  /\ rafPending > 0 => (mounted /\ isPlaying /\ rafRefLive)

\* the draw loop has run and a pause has cancelled its request
C18_Witness ==
  /\ mounted /\ ~isPlaying /\ pausedAt # NoLine
  /\ startTimeRef # "unset" /\ rafPending = 0

\* C19: while isPlaying=true on a scene that has no background image a frame
\* request is pending, so that the draw loop keeps running.
C19_LoopAliveWithoutImage ==
  (mounted /\ isPlaying /\ HasScene(currentSceneIndex) /\ ~HasImageUrl(currentSceneIndex))
    => rafPending >= 1

\* a timer whose callback still has an effect: the scene timeout that stops
\* the recorder
CanAct(t) ==
  t.kind = "scene" /\ t.capScene >= Len(scenes) - 1 /\ mediaRecorder = "recording"

\* C20: once the Player is unmounted no frame request is pending, the audio
\* context of a recording session is closed, the tracks of the captured streams
\* are stopped and no sequencer timer is left that can still act.
C20_TeardownReleases ==
  ~mounted =>
    /\ rafPending = 0
    /\ audioContext # "running"
    /\ streamTracks # "live"
    /\ \A t \in BagToSet(timers) : ~CanAct(t)

\* C21: in one component lifetime the audio context, the recording destination
\* and the source node of the audio element are each created at most once, and
\* a recorder that records is fed by that one graph.
C21_SingleAudioGraph ==
  /\ audioGraph.contexts <= 1 /\ audioGraph.destinations <= 1 /\ audioGraph.sources <= 1
  /\ mediaRecorder = "recording" =>
       (audioGraph.contexts = 1 /\ audioGraph.destinations = 1 /\ audioGraph.sources = 1)

\* a later recording session runs on the graph an earlier one created
C21_Witness ==
  /\ audioGraph.reused /\ mediaRecorder = "recording" /\ isRecording
  /\ audioGraph.sources = 1

\* C24: in every reachable state the scene index names a scene:
\* 0 <= currentSceneIndex <= scenes.length - 1.
C24_SceneIndexInRange == HasScene(currentSceneIndex)

\* C25: in every reachable state the dialogue index is at most the number of
\* lines of the current scene, and it equals that number only while the
\* timeout of the pause between scenes is pending.
C25_DialogueIndexInRange ==
  HasScene(currentSceneIndex) =>
    /\ currentDialogueIndex >= 0
    /\ currentDialogueIndex <= NumDialogues(currentSceneIndex)
    /\ currentDialogueIndex = NumDialogues(currentSceneIndex)
         => \E t \in BagToSet(timers) : t.kind = "scene"

\* C26: playback never stays playing with no timer and no audio pending: while
\* isPlaying holds, a callback that can end or advance the run is in flight.
C26_PlayingHasPendingWork ==
  (mounted /\ isPlaying) => InFlight(timers, audio) > 0

\* C27: nextScene moves the cursor to (sceneIndex + 1, 0) when a later scene
\* exists and leaves the cursor unchanged on the last scene.
C27_NextSceneResetsDialogue ==
  [][(ClickNextScene /\ ~NextSceneDisabled)
       => IF currentSceneIndex < Len(scenes) - 1
          THEN currentSceneIndex' = currentSceneIndex + 1 /\ currentDialogueIndex' = 0
          ELSE UNCHANGED cursor]_vars

\* C28: startRecording takes effect only with isRecording = false and
\* isPlaying = false, and never while a recorder is recording or its stop event
\* is still to be delivered.
C28_OneRecordingSession ==
  [][((\E o \in CaptureOutcomes : ClickRecord(o)) /\ ~ignored')
       => (~isRecording /\ ~isPlaying /\ mediaRecorder # "recording" /\ ~onstopPending)]_vars

\* a second session records after the first one has delivered its file
C28_Witness ==
  /\ mediaRecorder = "recording" /\ isRecording /\ ~onstopPending
  /\ audioGraph.reused /\ lastCtl = "record" /\ Len(visited) >= 2

\* C22 as stated: no line emitted by wrapText measures more than the max width
\* unless it consists of a single word that alone is wider than the max width.
C22_WidthBound_WordAlone ==
  wrap.pc # "none" =>
    \A i \in DOMAIN wrap.out :
      LET l == wrap.out[i].text
      IN \/ MeasureText(l) <= wrap.maxWidth
         \/ Len(LineWords(l)) = 1 /\ MeasureText(LineWords(l)[1]) > wrap.maxWidth

\* C22: no line emitted by wrapText measures more than the max width unless it
\* consists of a single word which, with the space wrapText appends to every
\* word, is wider than the max width.
C22_WidthBound ==
  wrap.pc # "none" =>
    \A i \in DOMAIN wrap.out :
      LET l == wrap.out[i].text
      IN \/ MeasureText(l) <= wrap.maxWidth
         \/ Len(LineWords(l)) = 1 /\ MeasureText(l) > wrap.maxWidth

\* a text was wrapped into several lines, one of them a single word wider than
\* the max width
C22_Witness ==
  /\ wrap.pc = "done" /\ Len(wrap.out) >= 2
  /\ \E i \in DOMAIN wrap.out :
       LET l == wrap.out[i].text
       IN Len(LineWords(l)) = 1 /\ MeasureText(LineWords(l)[1]) > wrap.maxWidth
  /\ \E i \in DOMAIN wrap.out : MeasureText(wrap.out[i].text) <= wrap.maxWidth

\* C29: the lines emitted by wrapText, in emission order, contain every word of
\* the text exactly once and in the original order, and every line after the
\* first is one line height below the previous one.
C29_WrapLosesNothing ==
  wrap.pc # "none" =>
    /\ WordsOfLines(wrap.out)
         \o (IF wrap.pc = "loop" /\ wrap.line # <<>> THEN LineWords(wrap.line) ELSE <<>>)
       = SubSeq(wrap.words, 1, wrap.n)
    /\ wrap.pc = "done" => WordsOfLines(wrap.out) = Split(wrap.text)
    /\ \A i \in DOMAIN wrap.out :
         i > 1 => wrap.out[i].y = wrap.out[i - 1].y + wrap.lineHeight

\* a text of three words or more was wrapped into several lines, one of them
\* of several words
C29_Witness ==
  /\ wrap.pc = "done" /\ Len(wrap.out) >= 2 /\ Len(wrap.words) >= 3
  /\ \E i \in DOMAIN wrap.out : Len(LineWords(wrap.out[i].text)) >= 2
  /\ \A i \in DOMAIN wrap.words : wrap.words[i] # <<>>

\* C30: when a generation settles, whatever the order, only the entity it
\* targets changes, and of that entity only the fields the generation
\* delivers: the result an earlier completion stored in another entity stays.
C30_NoLostUpdate ==
  [][\A r \in Awaiting("image") \cup Awaiting("audio") \cup Awaiting("avatar") :
       (\E ok \in BOOLEAN : \/ SceneImageSettled(r, ok)
                            \/ AudioSettled(r, ok)
                            \/ CharacterImageSettled(r, ok))
         => LET a == assets.analysis
                b == assets'.analysis
            IN /\ Cardinality(TargetsOf(a, r)) = 1
               /\ \A e \in Entities \ TargetsOf(a, r) : Fields(b, e) = Fields(a, e)
               /\ \A e \in TargetsOf(a, r) :
                    \A f \in DOMAIN Fields(a, e) \ AssetFields(r.kind) :
                      Fields(b, e)[f] = Fields(a, e)[f]]_vars

\* a generation is in flight while another entity holds the result of a
\* generation that was started after it and has settled before it
C30_Witness ==
  /\ assets.pc = "app"
  /\ \E r \in BagToSet(assets.inflight) :
       \E e \in Entities \ TargetsOf(assets.analysis, r) :
         /\ e.kind = "scene"
         /\ Fields(r.captured, e).imageUrl = "none"
         /\ ~Fields(r.captured, e).isGeneratingImage
         /\ Fields(assets.analysis, e).imageUrl = "url"

\* the flag of the entity e is set, a generation for e is in flight
Generating(a, e) ==
  IF e.kind = "scene" THEN a.scenes[e.s].isGeneratingImage
  ELSE IF e.kind = "dialogue" THEN a.scenes[e.s].dialogues[e.d].isGeneratingAudio
  ELSE FALSE
InFlightFor(e) ==
  \E r \in BagToSet(assets.inflight) : e \in TargetsOf(assets.analysis, r)

\* C31: isGeneratingImage of a scene (isGeneratingAudio of a line) is true
\* from the start of a generation for it until that generation settles and is
\* false again once it has settled, by its url or by its failure; a failure
\* leaves the stored imageUrl (audioUrl) as it was.
C31_FlagAlwaysClears ==
  /\ [](assets.pc = "app" =>
          \A e \in Entities :
            e.kind # "character" => (Generating(assets.analysis, e) <=> InFlightFor(e)))
  /\ [][/\ \A i \in SceneIds :
             GenerateSceneImage(i) => assets'.analysis.scenes[i].isGeneratingImage
        /\ \A i \in SceneIds : \A j \in LineIds(i) :
             GenerateAudio(i, j) => assets'.analysis.scenes[i].dialogues[j].isGeneratingAudio
        /\ \A r \in Awaiting("image") \cup Awaiting("audio") : \A ok \in BOOLEAN :
             (SceneImageSettled(r, ok) \/ AudioSettled(r, ok))
               => \A e \in TargetsOf(assets.analysis, r) :
                    /\ ~Generating(assets'.analysis, e)
                    /\ ~ok => Fields(assets'.analysis, e) =
                                Merge(Fields(assets.analysis, e),
                                      IF r.kind = "image" THEN [isGeneratingImage |-> FALSE]
                                      ELSE [isGeneratingAudio |-> FALSE])
                    /\ ok => Fields(assets'.analysis, e) =
                               Merge(Fields(assets.analysis, e),
                                     IF r.kind = "image"
                                     THEN [imageUrl |-> "url", isGeneratingImage |-> FALSE]
                                     ELSE [audioUrl |-> "url", isGeneratingAudio |-> FALSE])]_vars

\* the regeneration of an image that was stored has just failed: the flag is
\* clear again and the image is still there
C31_Witness ==
  /\ assets.pc = "app" /\ assets.failed.kind = "image"
  /\ \E e \in Entities :
       /\ e.kind = "scene" /\ assets.analysis.scenes[e.s].id = assets.failed.scene
       /\ ~Generating(assets.analysis, e) /\ ~InFlightFor(e)
       /\ Fields(assets.analysis, e).imageUrl = "url"
====
